---------------------------- MODULE Spec2Model ----------------------------
(***************************************************************************)
(* Orchestration core of the RFP multi-agent pipeline:                     *)
(*   - SupervisorAgent.route_next_agent and its helpers                    *)
(*     (src/src/agents/supervisor_agent.py)                                *)
(*   - EnhancedRFPWorkflow.process_rfp and the LangGraph nodes it drives   *)
(*     (src/src/workflows/enhanced_rfp_workflow.py)                        *)
(*   - the state updates of the six stage processors                       *)
(*     (src/src/agents/*_agent.py)                                         *)
(*                                                                         *)
(* Specifications:                                                         *)
(*   Spec       one run of process_rfp with the default WorkflowConfig     *)
(*   SpecFault  the same run when the graph runtime may raise              *)
(*   SpecRoute  route_next_agent called repeatedly on an arbitrary         *)
(*              WorkflowState (the supervisor as a function of its input)  *)
(*   SpecInfer  _determine_agent_from_state and _fallback_routing applied  *)
(*              to an arbitrary WorkflowState                              *)
(*   SpecBasic  one run of RFPWorkflow.process_rfp, the basic pipeline     *)
(*              (src/src/workflows/rfp_workflow.py)                        *)
(***************************************************************************)
EXTENDS Integers, Sequences, FiniteSets, TLC

\* ------------------------------------------------------------------------
\* AgentType, ValidationResult, standard sequence
\* ------------------------------------------------------------------------

DEEP_RESEARCHER == "deep_researcher"
SOLUTION_ARCHITECT == "solution_architect"
DESIGNER == "designer"
PROJECT_MANAGER == "project_manager"
CTO == "cto"
QA_CEO == "qa_ceo"
COMPLETE == "complete"

VALID == "valid"
INVALID == "invalid"
NEEDS_REVISION == "needs_revision"
REJECTED == "rejected"

\* last_agent_executed = None
NoAgent == "none"

\* routing_decision = None
NoDecision == [next_agent |-> "none", validation_result |-> "none"]

standard_sequence ==
    << DEEP_RESEARCHER, SOLUTION_ARCHITECT, DESIGNER, PROJECT_MANAGER,
       CTO, QA_CEO, COMPLETE >>

\* the six stages that have a node in the graph
Stages == { standard_sequence[i] : i \in 1..(Len(standard_sequence) - 1) }

AgentTypes == Stages \cup {COMPLETE}

\* list.index(x) on the standard sequence (1-based here)
IndexOf(a) == CHOOSE i \in 1..Len(standard_sequence) : standard_sequence[i] = a

MAX_REVISION_ATTEMPTS == 2

\* WorkflowConfig.max_iterations of the run (the default is 50).
\* WorkflowConfig.recursion_limit, the number of graph steps LangGraph allows,
\* has the same default, so the loop's own limit is always reached first and
\* the graph never runs out of steps.  Updates of the supervisor node are
\* the odd-numbered ones, so with an odd limit the update that reaches the
\* limit is a supervisor's and can carry the decision "complete".
max_iterations == 15

\* ------------------------------------------------------------------------
\* State
\* ------------------------------------------------------------------------

VARIABLES
    fields,               \* WorkflowState: the required-field names that exist
                          \* in the state (what _check_field_exists reports)
    last_agent_executed,  \* WorkflowState.last_agent_executed
    current_step,         \* WorkflowState.current_step
    revision_count,       \* WorkflowState.metadata["<stage>_revision_count"]
    routing_decision,     \* WorkflowState.routing_decision (next_agent,
                          \* validation_result of the last RoutingDecision)
    errors,               \* WorkflowState.errors
    completion_status,    \* WorkflowState.metadata["completion_status"]
    iteration_count,      \* process_rfp: iteration_count
    pc,                   \* the graph node about to run / position in
                          \* process_rfp
    validation,           \* route_next_agent: result of
                          \* _validate_agent_output in the last call
    llm_response,         \* the reply of the quality evaluator in the last
                          \* call, or NotCalled
    streak,               \* history: consecutive routing decisions naming
                          \* the same agent
    invoked,              \* history: the agent nodes run so far, in order
    no_failure,           \* history: no agent run has failed so far
    all_valid,            \* history: every reply of the evaluator so far
                          \* meant "valid"
    accepted,             \* history: the stages the supervisor found VALID
                          \* and routed past
    processing_status,    \* WorkflowState.processing_status
    extracted_data,       \* RFPWorkflow: state.extracted_data is set
    normalized_data,      \* RFPWorkflow: state.normalized_data is set
    proposal,             \* RFPWorkflow: state.proposal ("none" or what the
                          \* validation node finds in it)
    retry_count,          \* RFPWorkflow: hasattr(state, '_retry_count') for
                          \* the state given to the validation check
    scheduled,            \* RFPWorkflow: the graph nodes triggered for the
                          \* next step of the graph
    executed              \* history: the sets of nodes run by the graph,
                          \* one per step

vars == << fields, last_agent_executed, current_step, revision_count,
           routing_decision, errors, completion_status, iteration_count,
           pc, validation, llm_response, streak, invoked, no_failure,
           all_valid, accepted, processing_status, extracted_data,
           normalized_data, proposal, retry_count, scheduled, executed >>

\* the part of the state only RFPWorkflow (rfp_workflow.py) uses
basic_vars == << processing_status, extracted_data, normalized_data,
                 proposal, retry_count, scheduled, executed >>

\* the part of the state only EnhancedRFPWorkflow and the supervisor use
enhanced_vars == << fields, last_agent_executed, revision_count,
                    routing_decision, errors, completion_status,
                    iteration_count, validation, llm_response, streak,
                    invoked, no_failure, all_valid, accepted >>

\* WorkflowState defaults of the fields RFPWorkflow uses; its graph is not
\* running
BasicIdle ==
    /\ processing_status = "initialized"
    /\ extracted_data = FALSE
    /\ normalized_data = FALSE
    /\ proposal = "none"
    /\ retry_count = FALSE
    /\ scheduled = {}
    /\ executed = << >>

\* ------------------------------------------------------------------------
\* validation_criteria and _check_field_exists
\* ------------------------------------------------------------------------

\* validation_criteria[agent]['required_fields']
required_fields(a) ==
    CASE a = DEEP_RESEARCHER ->
            {"extracted_requirements", "client_context", "research_findings"}
      [] a = SOLUTION_ARCHITECT ->
            {"architecture_design", "technology_stack", "system_components"}
      [] a = DESIGNER ->
            {"architecture_diagrams", "visual_representations"}
      [] a = PROJECT_MANAGER ->
            {"project_plan", "effort_estimates", "timeline"}
      [] a = CTO ->
            {"technical_validation", "security_assessment",
             "architecture_approval"}
      [] a = QA_CEO ->
            {"quality_assessment", "executive_review", "final_approval"}
      [] OTHER -> {}

AllFields == UNION { required_fields(a) : a \in Stages }

\* _check_field_exists(state, field_name)
check_field_exists(f) == f \in fields

\* Truthiness of the output slot of a stage, as tested by `not state.<slot>`
\* (extracted_data, architecture_design, architecture_diagrams,
\*  project_plan, cto_validation, final_approval).
SlotField(a) ==
    CASE a = DEEP_RESEARCHER -> "research_findings"
      [] a = SOLUTION_ARCHITECT -> "architecture_design"
      [] a = DESIGNER -> "architecture_diagrams"
      [] a = PROJECT_MANAGER -> "project_plan"
      [] a = CTO -> "technical_validation"
      [] a = QA_CEO -> "final_approval"

SlotPopulated(a) == SlotField(a) \in fields

\* ------------------------------------------------------------------------
\* The external quality evaluator (LLM)
\* ------------------------------------------------------------------------

NotCalled == "not_called"

\* A reply of the evaluator is modelled by the verdict keywords its text
\* contains; the evaluator may also raise.
LLMReplies == { "plain", "needs_revision", "rejected",
                "rejected_and_needs_revision", "raises" }

ReplyContains(reply, word) ==
    \/ reply = word
    \/ reply = "rejected_and_needs_revision"
         /\ word \in {"rejected", "needs_revision"}

\* perform_quality_checks turning a failure of the evaluator into "rejected"
perform_quality_checks_FailClosed(reply) ==
    IF reply = "raises" THEN "rejected"
    ELSE IF ReplyContains(reply, "rejected") THEN "rejected"
    ELSE IF ReplyContains(reply, "needs_revision") THEN "needs_revision"
    ELSE "valid"

\* _perform_quality_checks: "rejected" is looked for first, then
\* "needs_revision", anything else is "valid"; an exception gives
\* "needs_revision".
perform_quality_checks(reply) ==
    IF reply = "raises" THEN "needs_revision"
    ELSE IF ReplyContains(reply, "rejected") THEN "rejected"
    ELSE IF ReplyContains(reply, "needs_revision") THEN "needs_revision"
    ELSE "valid"

\* _validate_agent_output: missing required fields give INVALID without a
\* quality check; otherwise the quality result is mapped to the enum.
MissingFields(a) == { f \in required_fields(a) : ~ check_field_exists(f) }

validate_agent_output(a, reply) ==
    IF MissingFields(a) # {} THEN INVALID
    ELSE LET q == perform_quality_checks(reply)
         IN  IF q = "rejected" THEN REJECTED
             ELSE IF q = "needs_revision" THEN NEEDS_REVISION
             ELSE VALID

\* the evaluator consulted whether or not a required field is missing
ConsultedReply_Always(a, reply) == reply

\* the evaluator is consulted only when no required field is missing
ConsultedReply(a, reply) ==
    IF MissingFields(a) # {} THEN NotCalled ELSE reply

\* ------------------------------------------------------------------------
\* SupervisorAgent routing
\* ------------------------------------------------------------------------

\* determine_next_agent starting the pipeline at the second entry of the
\* sequence
determine_next_agent_FirstSkipped ==
    IF last_agent_executed = NoAgent THEN standard_sequence[2]
    ELSE LET current_index == IndexOf(last_agent_executed)
         IN  IF current_index < Len(standard_sequence)
             THEN standard_sequence[current_index + 1]
             ELSE COMPLETE

\* determine_next_agent returning the entry of the last agent itself
determine_next_agent_NoStep ==
    IF last_agent_executed = NoAgent THEN DEEP_RESEARCHER
    ELSE LET current_index == IndexOf(last_agent_executed)
         IN  IF current_index < Len(standard_sequence)
             THEN standard_sequence[current_index]
             ELSE COMPLETE

\* determine_next_agent stepping over the designer
determine_next_agent_Skips ==
    IF last_agent_executed = NoAgent THEN DEEP_RESEARCHER
    ELSE LET current_index == IndexOf(last_agent_executed)
             step == IF last_agent_executed = SOLUTION_ARCHITECT
                     THEN 2 ELSE 1
         IN  IF current_index < Len(standard_sequence)
             THEN standard_sequence[current_index + step]
             ELSE COMPLETE

\* _determine_next_agent: the first stage when nothing has run, otherwise
\* the entry after the last agent in the standard sequence.
determine_next_agent ==
    IF last_agent_executed = NoAgent THEN DEEP_RESEARCHER
    ELSE LET current_index == IndexOf(last_agent_executed)
         IN  IF current_index < Len(standard_sequence)
             THEN standard_sequence[current_index + 1]
             ELSE COMPLETE

\* handle_rejection without the special case for the CTO
handle_rejection_Self(rejected_agent) ==
    [ decision |-> [next_agent |-> rejected_agent,
                    validation_result |-> REJECTED],
      metadata |-> revision_count ]

\* handle_rejection counting the rejection as a revision attempt
handle_rejection_Counted(rejected_agent) ==
    [ decision |->
        IF rejected_agent = CTO
        THEN [next_agent |-> SOLUTION_ARCHITECT, validation_result |-> REJECTED]
        ELSE [next_agent |-> rejected_agent, validation_result |-> REJECTED],
      metadata |-> [revision_count EXCEPT ![rejected_agent] =
                      IF @ < MAX_REVISION_ATTEMPTS THEN @ + 1 ELSE @] ]

\* _handle_rejection: a CTO rejection goes back to the Solution Architect,
\* any other rejection goes back to the rejected agent; metadata untouched.
handle_rejection(rejected_agent) ==
    [ decision |->
        IF rejected_agent = CTO
        THEN [next_agent |-> SOLUTION_ARCHITECT, validation_result |-> REJECTED]
        ELSE [next_agent |-> rejected_agent, validation_result |-> REJECTED],
      metadata |-> revision_count ]

\* handle_revision_request comparing with > instead of >=
handle_revision_request_LateCap(agent_type) ==
    IF revision_count[agent_type] > MAX_REVISION_ATTEMPTS
    THEN [ decision |-> [next_agent |-> determine_next_agent,
                         validation_result |-> VALID],
           metadata |-> revision_count ]
    ELSE [ decision |-> [next_agent |-> agent_type,
                         validation_result |-> NEEDS_REVISION],
           metadata |-> [revision_count EXCEPT
                           ![agent_type] = revision_count[agent_type] + 1] ]

\* _handle_revision_request: at MAX_REVISION_ATTEMPTS accept and move on,
\* otherwise count the attempt and route back to the same agent.
handle_revision_request(agent_type) ==
    IF revision_count[agent_type] >= MAX_REVISION_ATTEMPTS
    THEN [ decision |-> [next_agent |-> determine_next_agent,
                         validation_result |-> VALID],
           metadata |-> revision_count ]
    ELSE [ decision |-> [next_agent |-> agent_type,
                         validation_result |-> NEEDS_REVISION],
           metadata |-> [revision_count EXCEPT
                           ![agent_type] = revision_count[agent_type] + 1] ]

\* route_next_agent sending INVALID to the revision handler as well
route_next_agent_InvalidRevised(reply) ==
    IF last_agent_executed # NoAgent
    THEN LET validation_result ==
                 validate_agent_output(last_agent_executed, reply)
         IN  IF validation_result = REJECTED
             THEN handle_rejection(last_agent_executed)
             ELSE IF validation_result \in {NEEDS_REVISION, INVALID}
             THEN handle_revision_request(last_agent_executed)
             ELSE [ decision |-> [next_agent |-> determine_next_agent,
                                  validation_result |-> validation_result],
                    metadata |-> revision_count ]
    ELSE [ decision |-> [next_agent |-> determine_next_agent,
                         validation_result |-> VALID],
           metadata |-> revision_count ]

\* route_next_agent: validate the last agent (if any), dispatch REJECTED and
\* NEEDS_REVISION to their handlers, otherwise (VALID, INVALID, or nothing
\* to validate) go to the next agent with the validation result as it is.
route_next_agent(reply) ==
    IF last_agent_executed # NoAgent
    THEN LET validation_result ==
                 validate_agent_output(last_agent_executed, reply)
         IN  IF validation_result = REJECTED
             THEN handle_rejection(last_agent_executed)
             ELSE IF validation_result = NEEDS_REVISION
             THEN handle_revision_request(last_agent_executed)
             ELSE [ decision |-> [next_agent |-> determine_next_agent,
                                  validation_result |-> validation_result],
                    metadata |-> revision_count ]
    ELSE [ decision |-> [next_agent |-> determine_next_agent,
                         validation_result |-> VALID],
           metadata |-> revision_count ]

\* what the call did besides returning: result of _validate_agent_output and
\* the reply the evaluator gave (NotCalled when it was not consulted)
ValidationOfCall(reply) ==
    IF last_agent_executed = NoAgent THEN "none"
    ELSE validate_agent_output(last_agent_executed, reply)

ReplyOfCall(reply) ==
    IF last_agent_executed = NoAgent THEN NotCalled
    ELSE ConsultedReply(last_agent_executed, reply)

\* ------------------------------------------------------------------------
\* Stage processors (the agents' entry points)
\* ------------------------------------------------------------------------

\* The required fields a successful run of the agent leaves in the state:
\*   deep_researcher     functional_modules is always a list,
\*                       client_organization may be None
\*   solution_architect  architecture_design dict with technology_stack and
\*                       system_components
\*   designer            architecture_diagrams may be the empty list
\*   project_manager     asdict(ProjectPlan) / asdict(ProjectEstimate) have
\*                       no 'estimates', 'total_estimate' or 'timeline' key
\*   cto                 asdict(CTOValidation) has no 'security_audit' or
\*                       'approved' key
\*   qa_ceo              final_approval and qa_results with executive_review
ProcessorOutputs(a) ==
    CASE a = DEEP_RESEARCHER ->
            { {"extracted_requirements", "research_findings"},
              {"extracted_requirements", "client_context",
               "research_findings"} }
      [] a = SOLUTION_ARCHITECT ->
            { {"architecture_design", "technology_stack",
               "system_components"} }
      [] a = DESIGNER ->
            { {"visual_representations"},
              {"architecture_diagrams", "visual_representations"} }
      [] a = PROJECT_MANAGER -> { {"project_plan"} }
      [] a = CTO -> { {"technical_validation"} }
      [] a = QA_CEO ->
            { {"quality_assessment", "executive_review", "final_approval"} }

\* The inputs an agent checks before working (it raises without them).
ProcessorInputs(a) ==
    CASE a = DEEP_RESEARCHER -> {}
      [] a = SOLUTION_ARCHITECT -> {DEEP_RESEARCHER}
      [] a = DESIGNER -> {SOLUTION_ARCHITECT}
      [] a = PROJECT_MANAGER -> {SOLUTION_ARCHITECT}
      [] a = CTO -> {SOLUTION_ARCHITECT, PROJECT_MANAGER}
      [] a = QA_CEO -> {DEEP_RESEARCHER, SOLUTION_ARCHITECT, DESIGNER,
                        PROJECT_MANAGER, CTO}

\* state.current_step written by a successful run
StepLabel(a) ==
    CASE a = DEEP_RESEARCHER -> "deep_research_complete"
      [] a = SOLUTION_ARCHITECT -> "architecture_design_complete"
      [] a = DESIGNER -> "diagram_generation_complete"
      [] a = PROJECT_MANAGER -> "project_planning_complete"
      [] a = CTO -> "cto_validation_complete"
      [] a = QA_CEO -> "final_approval_complete"

\* the diagnostic an agent appends when it fails
AgentError(a) == << a, "error" >>

\* successful run that leaves nothing but its own output in the state
AgentSucceeds_ClearsOthers(a, out) ==
    /\ \A i \in ProcessorInputs(a) : SlotPopulated(i)
    /\ out \in ProcessorOutputs(a)
    /\ fields' = out
    /\ current_step' = StepLabel(a)
    /\ last_agent_executed' = a

\* successful run: own output written, current_step and
\* last_agent_executed set
AgentSucceeds(a, out) ==
    /\ \A i \in ProcessorInputs(a) : SlotPopulated(i)
    /\ out \in ProcessorOutputs(a)
    /\ fields' = (fields \ required_fields(a)) \cup out
    /\ current_step' = StepLabel(a)
    /\ last_agent_executed' = a

\* failed run that records the stage as the last one executed
AgentFails_MarksStage(a) ==
    /\ last_agent_executed' = a
    /\ UNCHANGED << fields, current_step >>

\* failed run (the except branch): nothing but the diagnostic changes
AgentFails(a) ==
    UNCHANGED << fields, current_step, last_agent_executed >>

\* the except branch recording the failure twice
AgentFailureErrors_Twice(errs, a) ==
    Append(Append(errs, AgentError(a)), AgentError(a))

\* state.errors after the except branch of agent a
AgentFailureErrors(errs, a) == Append(errs, AgentError(a))

\* ------------------------------------------------------------------------
\* EnhancedRFPWorkflow: graph nodes and the loop of process_rfp
\* ------------------------------------------------------------------------

RejectedError == << "supervisor", "rejected" >>
IterationLimitError == << "workflow", "iteration_limit" >>

\* _route_from_supervisor: the node named by the routing decision
route_from_supervisor(decision) ==
    IF decision.next_agent \in AgentTypes THEN decision.next_agent
    ELSE COMPLETE

\* iteration limit check comparing with > instead of >=
LimitReached_Late(n) == n > max_iterations

\* iteration limit check of the loop
LimitReached(n) == n >= max_iterations

\* the loop stopping at the iteration limit without recording it
LoopBody_Silent(errs, decision, next_node) ==
    /\ iteration_count' = iteration_count + 1
    /\ errors' = errs
    /\ pc' = IF LimitReached(iteration_count + 1) THEN "finalize"
             ELSE IF decision.next_agent = COMPLETE THEN "finalize"
             ELSE next_node

\* Body of the `for state_update in compiled_workflow.stream(...)` loop for
\* one update: count it, stop at the iteration limit (recording it), stop
\* on a routing decision of "complete", otherwise let the graph go on to
\* next_node.  errs is state.errors as the node left it.
LoopBody(errs, decision, next_node) ==
    /\ iteration_count' = iteration_count + 1
    /\ IF LimitReached(iteration_count + 1)
       THEN /\ errors' = Append(errs, IterationLimitError)
            /\ pc' = "finalize"
       ELSE /\ errors' = errs
            /\ pc' = IF decision.next_agent = COMPLETE THEN "finalize"
                     ELSE next_node

\* the stages found VALID and routed past, after a call with this reply
AcceptedAfter(reply) ==
    IF /\ last_agent_executed \in Stages
       /\ ValidationOfCall(reply) = VALID
       /\ route_next_agent(reply).decision.next_agent = determine_next_agent
    THEN accepted \cup {last_agent_executed}
    ELSE accepted

\* _supervisor_node followed by the loop body for its update
SupervisorNode ==
    /\ pc = "supervisor"
    /\ \E reply \in LLMReplies :
         LET r == route_next_agent(reply)
             d == r.decision
         IN  /\ routing_decision' = d
             /\ revision_count' = r.metadata
             /\ validation' = ValidationOfCall(reply)
             /\ llm_response' = ReplyOfCall(reply)
             /\ LoopBody(IF d.validation_result = REJECTED
                         THEN Append(errors, RejectedError) ELSE errors,
                         d, route_from_supervisor(d))
             /\ streak' = IF d.next_agent = routing_decision.next_agent
                          THEN streak + 1 ELSE 1
             /\ all_valid' = (all_valid /\ ReplyOfCall(reply) \in
                                               {NotCalled, "plain"})
             /\ accepted' = AcceptedAfter(reply)
    /\ UNCHANGED basic_vars
    /\ UNCHANGED << fields, last_agent_executed, current_step,
                    completion_status, invoked, no_failure >>

\* an agent node followed by the loop body for its update
AgentNode ==
    /\ pc \in Stages
    /\ \/ /\ \E out \in ProcessorOutputs(pc) : AgentSucceeds(pc, out)
          /\ LoopBody(errors, routing_decision, "supervisor")
          /\ no_failure' = no_failure
       \/ /\ AgentFails(pc)
          /\ LoopBody(AgentFailureErrors(errors, pc), routing_decision,
                      "supervisor")
          /\ no_failure' = FALSE
    /\ invoked' = Append(invoked, pc)
    /\ UNCHANGED basic_vars
    /\ UNCHANGED << revision_count, routing_decision, completion_status,
                    validation, llm_response, streak, all_valid, accepted >>

\* "Finalize state" and return
Finalize ==
    /\ pc = "finalize"
    /\ current_step' = "workflow_complete"
    /\ completion_status' = IF iteration_count < max_iterations
                            THEN "completed" ELSE "terminated"
    /\ pc' = "returned"
    /\ UNCHANGED basic_vars
    /\ UNCHANGED << fields, last_agent_executed, revision_count,
                    routing_decision, errors, iteration_count, validation,
                    llm_response, streak, invoked, no_failure, all_valid,
                    accepted >>

\* process_rfp: the initial WorkflowState, graph entry point "supervisor"
Init ==
    /\ fields = {}
    /\ last_agent_executed = NoAgent
    /\ current_step = "workflow_start"
    /\ revision_count = [a \in Stages |-> 0]
    /\ routing_decision = NoDecision
    /\ errors = << >>
    /\ completion_status = "none"
    /\ iteration_count = 0
    /\ pc = "supervisor"
    /\ validation = "none"
    /\ llm_response = NotCalled
    /\ streak = 0
    /\ invoked = << >>
    /\ no_failure = TRUE
    /\ all_valid = TRUE
    /\ accepted = {}
    /\ BasicIdle

Next == SupervisorNode \/ AgentNode \/ Finalize

Spec == Init /\ [][Next]_vars

\* ------------------------------------------------------------------------
\* process_rfp when the graph runtime raises
\* ------------------------------------------------------------------------

WorkflowFailedError == << "workflow", "failed" >>

\* the exception leaving process_rfp: nothing is returned
WorkflowException_Propagates ==
    /\ pc \in Stages \cup {"supervisor"}
    /\ pc' = "raised"
    /\ UNCHANGED basic_vars
    /\ UNCHANGED << fields, last_agent_executed, current_step,
                    revision_count, routing_decision, errors,
                    completion_status, iteration_count, validation,
                    llm_response, streak, invoked, no_failure, all_valid,
                    accepted >>

\* `except Exception` of process_rfp: compiled_workflow.stream(...) raises
\* while the graph is running (the nodes catch their own exceptions, so
\* this is the runtime itself, e.g. its recursion limit).  A new
\* WorkflowState is built and returned: only raw_documents, current_step,
\* one errors entry and a metadata with completion_status 'failed' are
\* given, every other field has its default.
WorkflowException ==
    /\ pc \in Stages \cup {"supervisor"}
    /\ fields' = {}
    /\ last_agent_executed' = NoAgent
    /\ current_step' = "workflow_error"
    /\ revision_count' = [a \in Stages |-> 0]
    /\ routing_decision' = NoDecision
    /\ errors' = << WorkflowFailedError >>
    /\ completion_status' = "failed"
    /\ pc' = "returned"
    /\ UNCHANGED basic_vars
    /\ UNCHANGED << iteration_count, validation, llm_response, streak,
                    invoked, no_failure, all_valid, accepted >>

NextFault == SupervisorNode \/ AgentNode \/ Finalize \/ WorkflowException

SpecFault == Init /\ [][NextFault]_vars

\* ------------------------------------------------------------------------
\* route_next_agent as a function of its input state
\* ------------------------------------------------------------------------

\* _check_field_exists looks a nested field up in its slot, so a nested
\* field exists only if the slot itself exists.
ConsistentFields(F) ==
    /\ {"extracted_requirements", "client_context"} \cap F # {}
          => "research_findings" \in F
    /\ {"technology_stack", "system_components"} \cap F # {}
          => "architecture_design" \in F
    /\ "architecture_diagrams" \in F => "visual_representations" \in F
    /\ "timeline" \in F => "project_plan" \in F
    /\ {"security_assessment", "architecture_approval"} \cap F # {}
          => "technical_validation" \in F
    /\ "executive_review" \in F => "quality_assessment" \in F

\* Input states of a call: any last agent (or none), any consistent content
\* of that agent's own slot, the other slots all empty or all complete, and
\* any revision counters the supervisor can have left behind.
RouteInputs(last) ==
    { own \cup rest :
        own \in { F \in SUBSET required_fields(last) : ConsistentFields(F) },
        rest \in { {}, AllFields \ required_fields(last) } }

InitRoute ==
    /\ last_agent_executed \in Stages \cup {NoAgent}
    /\ fields \in RouteInputs(last_agent_executed)
    /\ revision_count \in [Stages -> 0..MAX_REVISION_ATTEMPTS]
    /\ current_step = "start"
    /\ routing_decision = NoDecision
    /\ errors = << >>
    /\ completion_status = "none"
    /\ iteration_count = 0
    /\ pc = "call"
    /\ validation = "none"
    /\ llm_response = NotCalled
    /\ streak = 0
    /\ invoked = << >>
    /\ no_failure = TRUE
    /\ all_valid = TRUE
    /\ accepted = {}
    /\ BasicIdle

\* one call of route_next_agent; the decision it returns is kept in
\* routing_decision
RouteCall ==
    /\ pc = "call"
    /\ \E reply \in LLMReplies :
         LET r == route_next_agent(reply)
         IN  /\ routing_decision' = r.decision
             /\ revision_count' = r.metadata
             /\ validation' = ValidationOfCall(reply)
             /\ llm_response' = ReplyOfCall(reply)
             /\ accepted' = AcceptedAfter(reply)
    /\ UNCHANGED basic_vars
    /\ UNCHANGED << fields, last_agent_executed, current_step, errors,
                    completion_status, iteration_count, pc, streak,
                    invoked, no_failure, all_valid >>

NextRoute == RouteCall

SpecRoute == InitRoute /\ [][NextRoute]_vars

\* ------------------------------------------------------------------------
\* Routing inferred from the state
\* ------------------------------------------------------------------------

\* determine_agent_from_state testing project_plan before
\* architecture_diagrams
determine_agent_from_state_PlanFirst ==
    IF ~ SlotPopulated(DEEP_RESEARCHER) THEN DEEP_RESEARCHER
    ELSE IF ~ SlotPopulated(SOLUTION_ARCHITECT) THEN SOLUTION_ARCHITECT
    ELSE IF ~ SlotPopulated(PROJECT_MANAGER) THEN PROJECT_MANAGER
    ELSE IF ~ SlotPopulated(DESIGNER) THEN DESIGNER
    ELSE IF ~ SlotPopulated(CTO) THEN CTO
    ELSE IF ~ SlotPopulated(QA_CEO) THEN QA_CEO
    ELSE COMPLETE

\* _determine_agent_from_state: the chain of `not state.<slot>` tests
determine_agent_from_state ==
    IF ~ SlotPopulated(DEEP_RESEARCHER) THEN DEEP_RESEARCHER
    ELSE IF ~ SlotPopulated(SOLUTION_ARCHITECT) THEN SOLUTION_ARCHITECT
    ELSE IF ~ SlotPopulated(DESIGNER) THEN DESIGNER
    ELSE IF ~ SlotPopulated(PROJECT_MANAGER) THEN PROJECT_MANAGER
    ELSE IF ~ SlotPopulated(CTO) THEN CTO
    ELSE IF ~ SlotPopulated(QA_CEO) THEN QA_CEO
    ELSE COMPLETE

\* _fallback_routing: the same chain, returning node names
fallback_routing ==
    IF ~ SlotPopulated(DEEP_RESEARCHER) THEN "deep_researcher"
    ELSE IF ~ SlotPopulated(SOLUTION_ARCHITECT) THEN "solution_architect"
    ELSE IF ~ SlotPopulated(DESIGNER) THEN "designer"
    ELSE IF ~ SlotPopulated(PROJECT_MANAGER) THEN "project_manager"
    ELSE IF ~ SlotPopulated(CTO) THEN "cto"
    ELSE IF ~ SlotPopulated(QA_CEO) THEN "qa_ceo"
    ELSE "complete"

\* Input states of the two functions: any consistent content of the six
\* slots (a slot is None or holds a value; architecture_diagrams may also
\* be the empty list, which is "visual_representations" alone).
InitInfer ==
    /\ fields \in { F \in SUBSET AllFields : ConsistentFields(F) }
    /\ last_agent_executed = NoAgent
    /\ current_step = "start"
    /\ revision_count = [a \in Stages |-> 0]
    /\ routing_decision = NoDecision
    /\ errors = << >>
    /\ completion_status = "none"
    /\ iteration_count = 0
    /\ pc = "infer"
    /\ validation = "none"
    /\ llm_response = NotCalled
    /\ streak = 0
    /\ invoked = << >>
    /\ no_failure = TRUE
    /\ all_valid = TRUE
    /\ accepted = {}
    /\ BasicIdle

\* one call of _determine_agent_from_state; the agent it returns is kept in
\* routing_decision.next_agent
DetermineFromState ==
    /\ pc = "infer"
    /\ routing_decision' = [next_agent |-> determine_agent_from_state,
                            validation_result |-> "none"]
    /\ pc' = "determine_agent_from_state"
    /\ UNCHANGED basic_vars
    /\ UNCHANGED << fields, last_agent_executed, current_step,
                    revision_count, errors, completion_status,
                    iteration_count, validation, llm_response, streak,
                    invoked, no_failure, all_valid, accepted >>

\* one call of _fallback_routing; the node it returns is kept in
\* routing_decision.next_agent
FallbackRouting ==
    /\ pc = "infer"
    /\ routing_decision' = [next_agent |-> fallback_routing,
                            validation_result |-> "none"]
    /\ pc' = "fallback_routing"
    /\ UNCHANGED basic_vars
    /\ UNCHANGED << fields, last_agent_executed, current_step,
                    revision_count, errors, completion_status,
                    iteration_count, validation, llm_response, streak,
                    invoked, no_failure, all_valid, accepted >>

NextInfer == DetermineFromState \/ FallbackRouting

SpecInfer == InitInfer /\ [][NextInfer]_vars

\* ------------------------------------------------------------------------
\* RFPWorkflow (rfp_workflow.py): the basic pipeline
\* ------------------------------------------------------------------------

END == "__end__"

\* The number of steps the graph runtime runs before it raises; no
\* recursion_limit is configured in process_rfp, so this is the runtime's
\* own default.
GraphRecursionLimit == 25

\* what the validation node can find in a generated proposal
ProposalContents == { "major_issues", "minor_issues", "complete" }

\* the WorkflowState fields the pipeline works on, as one record
BasicState ==
    [ processing_status |-> processing_status,
      current_step |-> current_step,
      extracted_data |-> extracted_data,
      normalized_data |-> normalized_data,
      proposal |-> proposal ]

\* DocumentParserAgent.parse_document: the states it can return
parse_document(s) ==
    { [s EXCEPT !.extracted_data = TRUE,
                !.current_step = "document_parsed",
                !.processing_status = "document_parsed"],
      [s EXCEPT !.processing_status = "error"] }

\* DataNormalizerAgent.normalize_data
normalize_data(s) ==
    { [s EXCEPT !.processing_status = "error"] } \cup
    ( IF s.extracted_data
      THEN { [s EXCEPT !.normalized_data = TRUE,
                       !.current_step = "data_normalized",
                       !.processing_status = "data_normalized"] }
      ELSE {} )

\* ProposalGeneratorAgent.generate_proposal
generate_proposal(s) ==
    { [s EXCEPT !.processing_status = "error"] } \cup
    ( IF s.normalized_data
      THEN { [s EXCEPT !.proposal = c,
                       !.current_step = "proposal_generated",
                       !.processing_status = "proposal_generated"] :
             c \in ProposalContents }
      ELSE {} )

\* ArchitectureGeneratorAgent.enhance_architecture: processing_status is
\* never written; without a proposal, or on any failure, only
\* processing_errors grows
enhance_architecture(s) ==
    { s } \cup
    ( IF s.proposal # "none"
      THEN { [s EXCEPT !.current_step = "architecture_enhanced"] }
      ELSE {} )

\* validate_node
validate_node(s) ==
    { [s EXCEPT !.current_step = "validated",
                !.processing_status =
                    IF s.proposal \in {"none", "major_issues"}
                    THEN "validation_failed"
                    ELSE IF s.proposal = "minor_issues"
                    THEN "completed_with_warnings"
                    ELSE "completed"] }

\* error_handler_node
error_handler_node(s) ==
    { [s EXCEPT !.current_step = "error_handled",
                !.processing_status =
                    IF s.extracted_data /\ s.proposal = "none"
                    THEN "partial_success" ELSE "failed"] }

\* the function of a graph node (add_node)
NodeFunction(n, s) ==
    CASE n = "parse_document" -> parse_document(s)
      [] n = "normalize_data" -> normalize_data(s)
      [] n = "generate_proposal" -> generate_proposal(s)
      [] n = "enhance_architecture" -> enhance_architecture(s)
      [] n = "validate_output" -> validate_node(s)
      [] n = "handle_error" -> error_handler_node(s)

check_parsing_success(s) ==
    IF s.processing_status = "error" \/ ~ s.extracted_data
    THEN "error" ELSE "success"

check_normalization_success(s) ==
    IF s.processing_status = "error" \/ ~ s.normalized_data
    THEN "error" ELSE "success"

check_generation_success(s) ==
    IF s.processing_status = "error" \/ s.proposal = "none"
    THEN "error" ELSE "success"

check_architecture_success(s) ==
    IF s.processing_status = "error" THEN "error" ELSE "success"

\* _check_validation_success, has_retry_count being
\* hasattr(state, '_retry_count')
check_validation_success(s, has_retry_count) ==
    IF s.processing_status = "error" THEN "error"
    ELSE IF s.processing_status = "validation_failed" /\ ~ has_retry_count
    THEN "retry"
    ELSE IF s.processing_status = "validation_failed" THEN "error"
    ELSE "success"

\* add_edge: the node every run of n triggers, whatever its result
PlainEdges(n) ==
    CASE n = "parse_document" -> {"normalize_data"}
      [] n = "normalize_data" -> {"generate_proposal"}
      [] n = "generate_proposal" -> {"enhance_architecture"}
      [] n = "enhance_architecture" -> {"validate_output"}
      [] n = "handle_error" -> {END}
      [] OTHER -> {}

\* add_conditional_edges: the node the check of n selects on the state n
\* returned
ConditionalEdges(n, s, has_retry_count) ==
    CASE n = "parse_document" ->
            IF check_parsing_success(s) = "success"
            THEN {"normalize_data"} ELSE {"handle_error"}
      [] n = "normalize_data" ->
            IF check_normalization_success(s) = "success"
            THEN {"generate_proposal"} ELSE {"handle_error"}
      [] n = "generate_proposal" ->
            IF check_generation_success(s) = "success"
            THEN {"enhance_architecture"} ELSE {"handle_error"}
      [] n = "enhance_architecture" ->
            IF check_architecture_success(s) = "success"
            THEN {"validate_output"} ELSE {"validate_output"}
      [] n = "validate_output" ->
            LET r == check_validation_success(s, has_retry_count)
            IN  IF r = "success" THEN {END}
                ELSE IF r = "retry" THEN {"generate_proposal"}
                ELSE {"handle_error"}
      [] OTHER -> {}

\* the nodes triggered by a run of n: a node that has both an edge and
\* conditional edges triggers the targets of both
Triggered(n, s, has_retry_count) ==
    (PlainEdges(n) \cup ConditionalEdges(n, s, has_retry_count)) \ {END}

\* hasattr(state, '_retry_count') at the next validation check.  The check
\* sets the attribute on the object it is given when it answers "retry";
\* _retry_count is not a field of WorkflowState, so it is still there the
\* next time only if the runtime hands the same object over again instead
\* of building the state from the fields it stores.
RetryCountAfter(n, s) ==
    IF n = "validate_output"
         /\ check_validation_success(s, retry_count) = "retry"
    THEN {TRUE, FALSE}
    ELSE {retry_count}

\* `except Exception` of RFPWorkflow.process_rfp: graph.stream raised;
\* initial_state is returned with status "failed"
BasicErrorState ==
    /\ processing_status' = "failed"
    /\ current_step' = "workflow_error"
    /\ extracted_data' = FALSE
    /\ normalized_data' = FALSE
    /\ proposal' = "none"
    /\ retry_count' = FALSE
    /\ scheduled' = {}
    /\ pc' = "returned"

\* one step of the graph that runs the single node n, and the loop body of
\* process_rfp for it; when nothing is triggered the stream ends and
\* process_rfp returns the last state
RunNode(n) ==
    /\ pc = "stream"
    /\ scheduled = {n}
    /\ Len(executed) < GraphRecursionLimit
    /\ \E t \in NodeFunction(n, BasicState) :
         \E rc \in RetryCountAfter(n, t) :
           /\ processing_status' = t.processing_status
           /\ current_step' = t.current_step
           /\ extracted_data' = t.extracted_data
           /\ normalized_data' = t.normalized_data
           /\ proposal' = t.proposal
           /\ retry_count' = rc
           /\ scheduled' = Triggered(n, t, retry_count)
           /\ pc' = IF Triggered(n, t, retry_count) = {} THEN "returned"
                    ELSE "stream"
    /\ executed' = Append(executed, {n})
    /\ UNCHANGED enhanced_vars

ParseDocument == RunNode("parse_document")

NormalizeData == RunNode("normalize_data")

GenerateProposal == RunNode("generate_proposal")

EnhanceArchitecture == RunNode("enhance_architecture")

ValidateOutput == RunNode("validate_output")

HandleError == RunNode("handle_error")

\* one step of the graph with two nodes triggered (a pipeline node by an
\* edge, handle_error by the conditional edges): both run on the same
\* state and both return the whole WorkflowState, which the runtime refuses
\* (one value per field and step); graph.stream raises and process_rfp
\* returns through its except branch
ConcurrentNodes ==
    /\ pc = "stream"
    /\ Cardinality(scheduled) > 1
    /\ Len(executed) < GraphRecursionLimit
    /\ executed' = Append(executed, scheduled)
    /\ BasicErrorState
    /\ UNCHANGED enhanced_vars

\* the graph is not finished after GraphRecursionLimit steps: graph.stream
\* raises and process_rfp returns through its except branch
RecursionLimitReached ==
    /\ pc = "stream"
    /\ scheduled # {}
    /\ Len(executed) = GraphRecursionLimit
    /\ BasicErrorState
    /\ UNCHANGED << executed, enhanced_vars >>

\* RFPWorkflow.process_rfp: initial_state, entry point parse_document
InitBasic ==
    /\ fields = {}
    /\ last_agent_executed = NoAgent
    /\ current_step = "start"
    /\ revision_count = [a \in Stages |-> 0]
    /\ routing_decision = NoDecision
    /\ errors = << >>
    /\ completion_status = "none"
    /\ iteration_count = 0
    /\ pc = "stream"
    /\ validation = "none"
    /\ llm_response = NotCalled
    /\ streak = 0
    /\ invoked = << >>
    /\ no_failure = TRUE
    /\ all_valid = TRUE
    /\ accepted = {}
    /\ processing_status = "initialized"
    /\ extracted_data = FALSE
    /\ normalized_data = FALSE
    /\ proposal = "none"
    /\ retry_count = FALSE
    /\ scheduled = {"parse_document"}
    /\ executed = << >>

NextBasic ==
    \/ ParseDocument
    \/ NormalizeData
    \/ GenerateProposal
    \/ EnhanceArchitecture
    \/ ValidateOutput
    \/ HandleError
    \/ ConcurrentNodes
    \/ RecursionLimitReached

SpecBasic == InitBasic /\ [][NextBasic]_vars

\* ------------------------------------------------------------------------
\* Properties
\* ------------------------------------------------------------------------

\* the stage that follows stage a in the pipeline ("complete" after the last)
FollowingStage(a) ==
    CASE a = DEEP_RESEARCHER -> SOLUTION_ARCHITECT
      [] a = SOLUTION_ARCHITECT -> DESIGNER
      [] a = DESIGNER -> PROJECT_MANAGER
      [] a = PROJECT_MANAGER -> CTO
      [] a = CTO -> QA_CEO
      [] a = QA_CEO -> COMPLETE

\* the decision that advances the stage cursor from the current state
AdvanceTarget ==
    IF last_agent_executed = NoAgent THEN DEEP_RESEARCHER
    ELSE FollowingStage(last_agent_executed)

\* a step that is a supervisor call (one engine iteration of the supervisor
\* node, or one call of route_next_agent on an input state)
SupervisorCalled ==
    \/ pc = "supervisor" /\ pc' # "supervisor"
    \/ pc = "call" /\ routing_decision' # NoDecision

\* C1 (bounded revision): no revision counter exceeds MAX_REVISION_ATTEMPTS,
\* and a call whose verdict on the last stage s is NeedsRevision either
\* (counter of s below the cap) adds one to the counter of s and routes back
\* to s with NeedsRevision, or (counter at the cap) leaves every counter
\* alone and routes to the stage following s with Valid.
C1_BoundedRevision ==
    /\ [](\A a \in Stages : revision_count[a] \in 0..MAX_REVISION_ATTEMPTS)
    /\ [][ (SupervisorCalled /\ validation' = NEEDS_REVISION) =>
             LET s == last_agent_executed
             IN  IF revision_count[s] < MAX_REVISION_ATTEMPTS
                 THEN /\ revision_count' =
                           [revision_count EXCEPT ![s] = revision_count[s] + 1]
                      /\ routing_decision'.next_agent = s
                      /\ routing_decision'.validation_result = NEEDS_REVISION
                 ELSE /\ revision_count' = revision_count
                      /\ routing_decision'.next_agent = FollowingStage(s)
                      /\ routing_decision'.validation_result = VALID ]_vars

\* forced acceptance happened: verdict NeedsRevision with the counter at the
\* cap, answered Valid and routed past the stage
C1_Witness ==
    /\ pc = "call"
    /\ last_agent_executed \in Stages
    /\ validation = NEEDS_REVISION
    /\ revision_count[last_agent_executed] = MAX_REVISION_ATTEMPTS
    /\ routing_decision.validation_result = VALID
    /\ routing_decision.next_agent = FollowingStage(last_agent_executed)

\* C2 (no stage looped on): in a run without failing stages the supervisor
\* names the same stage at most MAX_REVISION_ATTEMPTS + 1 times in a row.
C2_SameStageInARow ==
    no_failure => streak <= MAX_REVISION_ATTEMPTS + 1

\* C3 (termination): the loop of process_rfp never counts more than
\* max_iterations updates, and once it has counted max_iterations no graph
\* node runs any more.
C3_LoopBounded ==
    /\ iteration_count <= max_iterations
    /\ iteration_count >= max_iterations => pc \in {"finalize", "returned"}

\* a run that was stopped by the iteration limit and returned
C3_Witness ==
    /\ pc = "returned"
    /\ iteration_count = max_iterations
    /\ completion_status = "terminated"

\* C4 (progress of every iteration): every supervisor call either routes to
\* the stage that advances the cursor or adds one to a revision counter.
C4_AdvanceOrCount ==
    [][ SupervisorCalled =>
          \/ routing_decision'.next_agent = AdvanceTarget
          \/ \E a \in Stages : revision_count'[a] = revision_count[a] + 1
      ]_vars

\* C5 (happy path): a run that returned, in which no stage failed and every
\* reply of the evaluator meant valid, has run the six stages once each in
\* pipeline order and ended on the decision "complete", reported completed.
C5_HappyPath ==
    (pc = "returned" /\ no_failure /\ all_valid) =>
        /\ invoked = << DEEP_RESEARCHER, SOLUTION_ARCHITECT, DESIGNER,
                        PROJECT_MANAGER, CTO, QA_CEO >>
        /\ routing_decision.next_agent = COMPLETE
        /\ completion_status = "completed"

\* a happy run that returned
C5_Witness ==
    /\ pc = "returned"
    /\ no_failure
    /\ all_valid
    /\ Len(invoked) = 6
    /\ last_agent_executed = QA_CEO

\* C6 (bootstrap): a call on a state whose last_agent_executed is unset
\* returns deep_researcher with Valid, does not consult the evaluator and
\* changes no revision counter.
C6_Bootstrap ==
    [][ (SupervisorCalled /\ last_agent_executed = NoAgent) =>
          /\ routing_decision'.next_agent = standard_sequence[1]
          /\ routing_decision'.next_agent = DEEP_RESEARCHER
          /\ routing_decision'.validation_result = VALID
          /\ llm_response' = NotCalled
          /\ revision_count' = revision_count ]_vars

\* a call was made on a state with no last agent
C6_Witness ==
    /\ pc = "call"
    /\ last_agent_executed = NoAgent
    /\ routing_decision # NoDecision
    /\ \E a \in Stages : revision_count[a] > 0

\* C7 (advance on Valid): when no required field of the last stage s is
\* missing and the evaluator's verdict is Valid, the call returns the stage
\* following s, which is "complete" for qa_ceo.
C7_ValidAdvances ==
    [][ (SupervisorCalled /\ last_agent_executed \in Stages
           /\ MissingFields(last_agent_executed) = {}
           /\ perform_quality_checks(llm_response') = "valid"
           /\ llm_response' # NotCalled) =>
          /\ routing_decision'.next_agent = FollowingStage(last_agent_executed)
          /\ last_agent_executed = QA_CEO =>
                routing_decision'.next_agent = COMPLETE ]_vars

\* the last stage of the pipeline was found Valid and the call answered
\* "complete"
C7_Witness ==
    /\ pc = "call"
    /\ last_agent_executed = QA_CEO
    /\ MissingFields(QA_CEO) = {}
    /\ validation = VALID
    /\ llm_response = "plain"
    /\ routing_decision.next_agent = COMPLETE

\* C8 (rejection reroute): a Rejected verdict on cto routes to
\* solution_architect, a Rejected verdict on any other stage routes back to
\* that stage; the decision reports Rejected.
C8_RejectionReroute ==
    [][ (SupervisorCalled /\ validation' = REJECTED) =>
          /\ routing_decision'.validation_result = REJECTED
          /\ routing_decision'.next_agent =
                IF last_agent_executed = CTO THEN SOLUTION_ARCHITECT
                ELSE last_agent_executed ]_vars

\* the cto stage was rejected and the call routed to solution_architect
C8_Witness ==
    /\ pc = "call"
    /\ last_agent_executed = CTO
    /\ validation = REJECTED
    /\ routing_decision =
          [next_agent |-> SOLUTION_ARCHITECT, validation_result |-> REJECTED]

\* C9 (fresh budget for the reroute target): a Rejected verdict on cto, which
\* reroutes to solution_architect, leaves solution_architect's revision
\* counter at 0.
C9_TargetCounterReset ==
    [][ (SupervisorCalled /\ validation' = REJECTED
           /\ last_agent_executed = CTO) =>
          revision_count'[SOLUTION_ARCHITECT] = 0 ]_vars

\* C10 (rejection counted against the cap): a call whose verdict is Rejected
\* either adds one to the revision counter of the stage it routes to, or,
\* that counter being at the cap, accepts and advances.
C10_RejectionCounted ==
    [][ (SupervisorCalled /\ validation' = REJECTED) =>
          LET t == routing_decision'.next_agent
          IN  \/ /\ t \in Stages
                 /\ revision_count[t] < MAX_REVISION_ATTEMPTS
                 /\ revision_count'[t] = revision_count[t] + 1
              \/ /\ routing_decision'.validation_result = VALID
                 /\ routing_decision'.next_agent = AdvanceTarget ]_vars

\* a step in which the agent node of stage a ran and failed
AgentFailed(a) ==
    /\ pc = a
    /\ Len(errors') > Len(errors)
    /\ errors'[Len(errors) + 1] = AgentError(a)

\* C11 (structural incompleteness is a revision): a call on a last stage s
\* with a missing required field and a revision counter below the cap routes
\* back to s with NeedsRevision and adds one to the counter of s.
C11_IncompleteRevised ==
    [][ (SupervisorCalled /\ last_agent_executed \in Stages
           /\ MissingFields(last_agent_executed) # {}
           /\ revision_count[last_agent_executed] < MAX_REVISION_ATTEMPTS) =>
          /\ routing_decision'.next_agent = last_agent_executed
          /\ routing_decision'.validation_result = NEEDS_REVISION
          /\ revision_count'[last_agent_executed] =
                revision_count[last_agent_executed] + 1 ]_vars

\* C12 (validator failure is fail-open): a call in which the evaluator
\* raised has the verdict NeedsRevision; it returns either a retry of the
\* last stage s that is counted against the cap, or, at the cap, Valid with
\* the stage following s; never Rejected.
C12_ValidatorFailOpen ==
    [][ (SupervisorCalled /\ llm_response' = "raises") =>
          LET s == last_agent_executed
          IN  /\ validation' = NEEDS_REVISION
              /\ routing_decision'.validation_result # REJECTED
              /\ routing_decision'.next_agent \in AgentTypes
              /\ IF revision_count[s] < MAX_REVISION_ATTEMPTS
                 THEN /\ routing_decision'.next_agent = s
                      /\ routing_decision'.validation_result = NEEDS_REVISION
                      /\ revision_count'[s] = revision_count[s] + 1
                 ELSE /\ routing_decision'.next_agent = FollowingStage(s)
                      /\ routing_decision'.validation_result = VALID
                      /\ revision_count' = revision_count ]_vars

\* the evaluator raised on a stage whose counter was at the cap and the
\* call accepted the stage
C12_Witness ==
    /\ pc = "call"
    /\ llm_response = "raises"
    /\ validation = NEEDS_REVISION
    /\ revision_count[last_agent_executed] = MAX_REVISION_ATTEMPTS
    /\ routing_decision.validation_result = VALID

\* C13 (failed stage becomes the last stage): after an agent node has run
\* and failed, last_agent_executed names that stage.
C13_FailedStageIsLast ==
    [][ \A a \in Stages : AgentFailed(a) => last_agent_executed' = a ]_vars

C20_ReturnedVerdicts ==
    routing_decision # NoDecision =>
        routing_decision.validation_result \in {VALID, NEEDS_REVISION, REJECTED}

\* sequence s is an initial part of sequence t
IsPrefix(s, t) == Len(s) <= Len(t) /\ SubSeq(t, 1, Len(s)) = s

\* C15 (process_rfp always returns): the run is always at a graph node, at
\* the finalisation or returned, never left by an exception; when nothing
\* more can happen it has returned a terminal WorkflowState: current_step
\* and completion_status are those of a finished run or of the error
\* state.
C15_AlwaysReturns ==
    /\ pc \in Stages \cup {"supervisor", "finalize", "returned"}
    /\ (~ ENABLED NextFault) => pc = "returned"
    /\ pc = "returned" =>
          \/ /\ current_step = "workflow_complete"
             /\ completion_status \in {"completed", "terminated"}
          \/ /\ current_step = "workflow_error"
             /\ completion_status = "failed"

\* the runtime raised in the middle of a run and the error state was
\* returned
C15_Witness ==
    /\ pc = "returned"
    /\ current_step = "workflow_error"
    /\ completion_status = "failed"
    /\ errors = << WorkflowFailedError >>
    /\ iteration_count > 0

\* C16 (the iteration cap is the only failure, nothing is dropped): a run
\* reports nothing but completed or terminated, and the step that returns a
\* run that did not complete keeps every entry of errors and every output
\* field present before it.
C16_OnlyCappedNothingDropped ==
    /\ [](completion_status \in {"none", "completed", "terminated"})
    /\ [][ (pc' = "returned" /\ completion_status' # "completed") =>
             /\ IsPrefix(errors, errors')
             /\ fields \subseteq fields' ]_vars

\* C18 (errors is append-only): every step leaves the previous content of
\* errors as an initial part of its new content.
C18_ErrorsAppendOnly ==
    [][ IsPrefix(errors, errors') ]_vars

\* a step in which the agent node of stage a ran to its end and wrote its
\* output
AgentWrote(a) ==
    /\ pc = a
    /\ invoked' = Append(invoked, a)
    /\ ~ AgentFailed(a)

\* C19 (write-once per accepted stage): a stage that the supervisor found
\* Valid and routed past never writes its output again.
C19_AcceptedNotRewritten ==
    [][ \A a \in Stages : a \in accepted => ~ AgentWrote(a) ]_vars

\* C21 (the structural check gates the quality check): in a call that
\* validates a last stage s, the evaluator is consulted exactly when no
\* required field of s is missing; with a missing field it is not called
\* and the result of the validation is INVALID.
C21_StructureGatesQuality ==
    [][ (SupervisorCalled /\ last_agent_executed \in Stages) =>
          /\ (llm_response' # NotCalled) <=>
                (MissingFields(last_agent_executed) = {})
          /\ MissingFields(last_agent_executed) # {} =>
                validation' = INVALID ]_vars

\* a stage with a missing required field was validated without consulting
\* the evaluator
C21_Witness ==
    /\ pc = "call"
    /\ last_agent_executed \in Stages
    /\ MissingFields(last_agent_executed) # {}
    /\ validation = INVALID
    /\ llm_response = NotCalled
    /\ routing_decision # NoDecision

\* a step in which the agent node of stage a ran (to its end or not)
AgentInvoked(a) ==
    /\ pc = a
    /\ invoked' = Append(invoked, a)

\* C22 (frame condition of the stage processors): a run of the agent of
\* stage a, successful or not, leaves every required field of every other
\* stage as it was and changes no revision counter.
C22_StageFrame ==
    [][ \A a \in Stages : AgentInvoked(a) =>
          /\ \A f \in AllFields \ required_fields(a) :
                (f \in fields') <=> (f \in fields)
          /\ revision_count' = revision_count ]_vars

\* solution_architect has just run successfully after a counted revision,
\* and the output of deep_researcher is still in the state
C22_Witness ==
    /\ pc = "supervisor"
    /\ Len(invoked) > 0
    /\ invoked[Len(invoked)] = SOLUTION_ARCHITECT
    /\ last_agent_executed = SOLUTION_ARCHITECT
    /\ SlotPopulated(DEEP_RESEARCHER)
    /\ SlotPopulated(SOLUTION_ARCHITECT)
    /\ revision_count[DEEP_RESEARCHER] > 0

\* the number of iteration-limit entries in errors
LimitEntries ==
    Cardinality({ i \in 1..Len(errors) : errors[i] = IterationLimitError })

\* C23 (the iteration cap stops the run and is recorded): the update that
\* brings the counter to max_iterations appends the iteration-limit entry
\* as the last entry of errors and goes to the finalisation; from then on no
\* graph node runs, errors holds exactly one such entry (none before), and
\* the returned run is reported as terminated.
C23_CapRecorded ==
    /\ [][ (iteration_count' = max_iterations
              /\ iteration_count < max_iterations) =>
             /\ errors' # << >>
             /\ errors'[Len(errors')] = IterationLimitError
             /\ pc' = "finalize" ]_vars
    /\ [](iteration_count >= max_iterations =>
             /\ pc \in {"finalize", "returned"}
             /\ LimitEntries = 1)
    /\ [](iteration_count < max_iterations => LimitEntries = 0)
    /\ []((pc = "returned" /\ iteration_count >= max_iterations) =>
             completion_status = "terminated")

\* a run with a failing stage was stopped by the iteration limit and
\* returned as terminated, the limit entry last in errors
C23_Witness ==
    /\ pc = "returned"
    /\ iteration_count = max_iterations
    /\ completion_status = "terminated"
    /\ Len(errors) > 1
    /\ errors[Len(errors)] = IterationLimitError
    /\ LimitEntries = 1

\* positions in the standard sequence of the stages whose slot is not
\* populated
UnpopulatedPositions ==
    { i \in 1..(Len(standard_sequence) - 1) :
        ~ SlotPopulated(standard_sequence[i]) }

\* C24 (routing inferred from the state): the stage returned by
\* _determine_agent_from_state or _fallback_routing is the first stage of
\* the standard sequence whose slot is not populated, and "complete"
\* exactly when all six slots are populated.
C24_FirstUnpopulated ==
    pc \in {"determine_agent_from_state", "fallback_routing"} =>
        LET r == routing_decision.next_agent
        IN  /\ (r = COMPLETE) <=> (UnpopulatedPositions = {})
            /\ UnpopulatedPositions # {} =>
                  \E i \in UnpopulatedPositions :
                      /\ r = standard_sequence[i]
                      /\ \A j \in UnpopulatedPositions : i <= j

\* a state with a gap: the designer's slot is empty although the project
\* manager's is populated, and the designer was returned
C24_Witness ==
    /\ pc = "determine_agent_from_state"
    /\ SlotPopulated(DEEP_RESEARCHER)
    /\ SlotPopulated(SOLUTION_ARCHITECT)
    /\ ~ SlotPopulated(DESIGNER)
    /\ SlotPopulated(PROJECT_MANAGER)
    /\ ~ SlotPopulated(CTO)
    /\ routing_decision.next_agent = DESIGNER

\* the number of graph steps so far in which node n ran
RunsOf(n) == Cardinality({ i \in 1..Len(executed) : n \in executed[i] })

\* C25 (one retry of the generation): generate_proposal and
\* validate_output each run at most twice in a run, and a validation that
\* fails for the second time triggers handle_error and nothing else.
C25_OneRetry ==
    /\ [](RunsOf("generate_proposal") <= 2 /\ RunsOf("validate_output") <= 2)
    /\ [][ (pc = "stream" /\ scheduled = {"validate_output"}
              /\ RunsOf("validate_output") >= 1
              /\ processing_status' = "validation_failed") =>
             scheduled' = {"handle_error"} ]_vars

\* the success check of pipeline node n answers "error" on the state n has
\* just returned
FailedCheck(n) ==
    /\ pc = "stream"
    /\ executed # << >>
    /\ executed[Len(executed)] = {n}
    /\ CASE n = "parse_document" ->
              check_parsing_success(BasicState) = "error"
         [] n = "normalize_data" ->
              check_normalization_success(BasicState) = "error"
         [] n = "generate_proposal" ->
              check_generation_success(BasicState) = "error"

\* C26 (an error ends the pipeline): when the success check after
\* parse_document, normalize_data or generate_proposal answers "error", the
\* next step of the graph runs handle_error and no other node, and the run
\* ends with it.
C26_ErrorOnlyHandled ==
    [][ \A n \in {"parse_document", "normalize_data", "generate_proposal"} :
          (FailedCheck(n) /\ executed' # executed) =>
             /\ executed'[Len(executed')] = {"handle_error"}
             /\ pc' = "returned" ]_vars

C28_LastIsLastSuccess ==
    /\ [](Len(invoked) = 0 => last_agent_executed = NoAgent)
    /\ [][ \A a \in Stages : AgentInvoked(a) =>
             IF AgentFailed(a)
             THEN /\ last_agent_executed' = last_agent_executed
                  /\ current_step' = current_step
             ELSE last_agent_executed' = a ]_vars
    /\ [][ (~ \E a \in Stages : AgentInvoked(a)) =>
             last_agent_executed' = last_agent_executed ]_vars

\* solution_architect has just failed after deep_researcher succeeded:
\* deep_researcher is still the last agent executed
C28_Witness ==
    /\ pc = "supervisor"
    /\ invoked = << DEEP_RESEARCHER, SOLUTION_ARCHITECT >>
    /\ errors = << AgentError(SOLUTION_ARCHITECT) >>
    /\ last_agent_executed = DEEP_RESEARCHER
    /\ current_step = StepLabel(DEEP_RESEARCHER)

\* stage a has completed successfully at least once: its output slot has
\* been assigned (slots are assigned by successful runs only and never
\* cleared)
Completed(a) ==
    CASE a = DEEP_RESEARCHER -> check_field_exists("research_findings")
      [] a = SOLUTION_ARCHITECT -> check_field_exists("architecture_design")
      [] a = DESIGNER -> check_field_exists("visual_representations")
      [] a = PROJECT_MANAGER -> check_field_exists("project_plan")
      [] a = CTO -> check_field_exists("technical_validation")
      [] a = QA_CEO -> check_field_exists("final_approval")

\* C29 (Complete means the whole pipeline ran, in order): when the
\* supervisor has returned "complete" every one of the six stages has
\* completed successfully, and whenever a stage completes successfully
\* every stage before it in the standard sequence has already done so.
C29_CompleteMeansAllInOrder ==
    /\ [](routing_decision.next_agent = COMPLETE =>
             \A a \in Stages : Completed(a))
    /\ [][ \A a \in Stages : AgentWrote(a) =>
             \A b \in Stages : IndexOf(b) < IndexOf(a) => Completed(b) ]_vars

\* the supervisor returned "complete" in a run that needed more than six
\* stage invocations
C29_Witness ==
    /\ routing_decision.next_agent = COMPLETE
    /\ last_agent_executed = QA_CEO
    /\ \A a \in Stages : Completed(a)
    /\ Len(invoked) > Len(standard_sequence) - 1

\* C30 (completion_status tells how the run stopped): a returned run is
\* reported completed exactly when the supervisor's last decision was
\* "complete", and terminated exactly when it was not (the run was stopped
\* by the iteration limit).
C30_StatusMatchesStop ==
    pc = "returned" =>
        /\ (completion_status = "completed") <=>
              (routing_decision.next_agent = COMPLETE)
        /\ (completion_status = "terminated") <=>
              (routing_decision.next_agent # COMPLETE)

====
